---- MODULE Spec2Model ----
(***************************************************************************)
(* Model of cr0ssp0st0r (src/index.js): the Mastodon -> Bluesky            *)
(* cross-posting loop, its thread ledger (node-persist storage), the       *)
(* media transloader and the text reformatter.                             *)
(*                                                                         *)
(* Text is modelled as a sequence of word-segmenter tokens, each with its  *)
(* grapheme count and its isWordLike flag; HTML content is a sequence of   *)
(* such tokens interleaved with markup pieces.                             *)
(***************************************************************************)
EXTENDS Integers, Sequences, FiniteSets, TLC

VARIABLES
    storage,    \* node-persist store: key -> UndefinedItem | [bsky |-> NullV | [post, root]]
    pc,         \* position of the top-level for-await loop
    cur,        \* mastodonStatus of the item in processing (NullV between items)
    post,       \* the bsky post record under assembly (NullV when none)
    tasks,      \* the promises of transloadMastodonMediaToBsky for the current item
    feed,       \* destination: per record accepted by agent.post, in order, its source id
    delivered,  \* number of events the subscription has delivered so far
    processed,  \* history: source ids for which the loop body has been entered
    error,      \* the exception caught by the outer catch ("none" when none)
    writeFailed,\* history: source ids for which a storage.setItem call threw
    rtStatus,   \* input of the reformatText harness
    rtResult,   \* output of the reformatText harness (NullV before the call)
    evIn,       \* input of the event filter harness: an event of the subscription
    evOut       \* what the stream generator did with it ("pending" before)

vars == <<storage, pc, cur, post, tasks, feed, delivered, processed,
          error, writeFailed, rtStatus, rtResult, evIn, evOut>>

pipelineVars == <<storage, pc, cur, post, tasks, feed, delivered, processed,
                  error, writeFailed>>

textVars == <<rtStatus, rtResult>>

filterVars == <<evIn, evOut>>

(***************************************************************************)
(* Bounds                                                                  *)
(***************************************************************************)
MaxId == 3          \* source post ids are 1..MaxId
MaxEvents == 3      \* events delivered by the subscription in one behaviour
MaxAttach == 2      \* media attachments per post
MaxPieces == 3      \* pieces (tokens, markup) of a content in the text harness

Ids == 1..MaxId

(***************************************************************************)
(* Text                                                                    *)
(***************************************************************************)
GraphemeLimit == 300
SeparatorLen == 2

TokLens == {1, 100, 128, 150, 301}
Token == [len : TokLens, word : BOOLEAN]
Br == [tag |-> "br"]          \* <br /> or <br/>
PBreak == [tag |-> "</p><p>"]  \* a paragraph boundary
OtherTag == [tag |-> "other"]  \* any other markup
Markup == {Br, PBreak, OtherTag}
Piece == Token \cup Markup
UrlLens == {20, 60}

Tok(n, w) == [len |-> n, word |-> w]

RECURSIVE countGraphemes(_)
countGraphemes(text) ==
    IF text = <<>> THEN 0 ELSE Head(text).len + countGraphemes(Tail(text))

\* content.replaceAll(/<br\s?\/>/g, "\n").replaceAll("</p><p>", "\n\n")
RECURSIVE InjectNewlines(_)
InjectNewlines(content) ==
    IF content = <<>> THEN <<>>
    ELSE LET h == Head(content)
             r == InjectNewlines(Tail(content))
         IN  IF h = Br THEN <<Tok(1, FALSE)>> \o r
             ELSE IF h = PBreak THEN <<Tok(2, FALSE)>> \o r
             ELSE <<h>> \o r

\* stripHtml(...).result: the remaining markup is dropped
RECURSIVE stripHtml(_)
stripHtml(content) ==
    IF content = <<>> THEN <<>>
    ELSE IF Head(content) \in Markup THEN stripHtml(Tail(content))
    ELSE <<Head(content)>> \o stripHtml(Tail(content))

StrippedText(content) == stripHtml(InjectNewlines(content))

\* 300 - url.length - 2
maxGraphemeCount(url) == GraphemeLimit - url - SeparatorLen

\* mutant: the loop stops only when the budget is exceeded
RECURSIVE SegmentLoopStrict(_, _, _, _, _)
SegmentLoopStrict(text, i, snippet, addToSnippet, url) ==
    IF i > Len(text)
    THEN [body |-> text, truncated |-> FALSE, url |-> url]
    ELSE LET add == Append(addToSnippet, text[i])
         IN  IF text[i].word
             THEN IF countGraphemes(snippet \o add) > maxGraphemeCount(url)
                  THEN [body |-> snippet, truncated |-> TRUE, url |-> url]
                  ELSE SegmentLoopStrict(text, i + 1, snippet \o add, <<>>, url)
             ELSE SegmentLoopStrict(text, i + 1, snippet, add, url)

\* mutant: the budget is tested on the snippet before the segment is added
RECURSIVE SegmentLoopTestsFirst(_, _, _, _, _)
SegmentLoopTestsFirst(text, i, snippet, addToSnippet, url) ==
    IF i > Len(text)
    THEN [body |-> text, truncated |-> FALSE, url |-> url]
    ELSE LET add == Append(addToSnippet, text[i])
         IN  IF text[i].word
             THEN IF countGraphemes(snippet) >= maxGraphemeCount(url)
                  THEN [body |-> snippet, truncated |-> TRUE, url |-> url]
                  ELSE SegmentLoopTestsFirst(text, i + 1, snippet \o add, <<>>, url)
             ELSE SegmentLoopTestsFirst(text, i + 1, snippet, add, url)

\* The for-of loop over wordSegmenter.segment(text), from segment i on.
\* It returns snippet + "... url" from inside, or falls out of the loop.
RECURSIVE SegmentLoop(_, _, _, _, _)
SegmentLoop(text, i, snippet, addToSnippet, url) ==
    IF i > Len(text)
    THEN [body |-> text, truncated |-> FALSE, url |-> url]
    ELSE LET add == Append(addToSnippet, text[i])
         IN  IF text[i].word
             THEN IF countGraphemes(snippet \o add) >= maxGraphemeCount(url)
                  THEN [body |-> snippet, truncated |-> TRUE, url |-> url]
                  ELSE SegmentLoop(text, i + 1, snippet \o add, <<>>, url)
             ELSE SegmentLoop(text, i + 1, snippet, add, url)

\* The result is the body followed, when truncated, by the separator and url.
reformatText(mastodonStatus) ==
    LET text == StrippedText(mastodonStatus.content)
        url == mastodonStatus.url
    IN  IF countGraphemes(text) > GraphemeLimit
        THEN SegmentLoop(text, 1, <<>>, <<>>, url)
        ELSE [body |-> text, truncated |-> FALSE, url |-> url]

\* grapheme count of a result of reformatText
ResultGraphemes(r) ==
    countGraphemes(r.body) + (IF r.truncated THEN SeparatorLen + r.url ELSE 0)

(***************************************************************************)
(* Values                                                                  *)
(***************************************************************************)
NullV == [null |-> TRUE]                \* JavaScript null
UndefinedItem == [undefined |-> TRUE]   \* storage.getItem of a key never set
NoId == 0                               \* inReplyToId of a post that is no reply
MASTODON_ACCOUNT_ID == "me"
ThumbUrl == 0                           \* the url of a card's thumbnail image

Identity(n) == [uri |-> n]              \* what agent.post returns

\* uploadResponse.data.blob for the bytes downloaded from url
BlobRef(url) == [ref |-> url, original |-> [json |-> url]]

Attachment(i, t) == [type |-> t, url |-> i, description |-> i, meta |-> i]
ImageAttachments(n) == [i \in 1..n |-> Attachment(i, "image")]

Cards == {NullV, [url |-> 1, image |-> NullV], [url |-> 1, image |-> [href |-> ThumbUrl]]}

ShortContent == <<Tok(100, TRUE)>>
PipelineContents == {ShortContent, <<Tok(150, TRUE), Tok(1, FALSE), Tok(301, TRUE)>>}

Payload(id, vis, muted, acct, ment, parent, parentAcct, media, card, content) ==
    [id |-> id, visibility |-> vis, muted |-> muted, account |-> [id |-> acct],
     mentions |-> ment, inReplyToId |-> parent, inReplyToAccountId |-> parentAcct,
     mediaAttachments |-> media, card |-> card, content |-> content,
     url |-> 20, language |-> "en"]

\* events that pass the filter: own public posts, roots or replies to own posts
GoodEvents ==
    { [event |-> "update",
       payload |-> Payload(id, "public", FALSE, MASTODON_ACCOUNT_ID, 0, parent,
                           IF parent = NoId THEN "none" ELSE MASTODON_ACCOUNT_ID,
                           ImageAttachments(n), card, content)] :
        id \in Ids, parent \in 0..MaxId, n \in 0..MaxAttach,
        card \in Cards, content \in PipelineContents }

\* the long content comes without media; a card comes with at most one image
Varied(payload) ==
    /\ payload.content # ShortContent =>
          Len(payload.mediaAttachments) = 0 /\ payload.card = NullV
    /\ payload.card # NullV => Len(payload.mediaAttachments) <= 1

\* events that vary the fields the filter reads
OtherEvents ==
    { [event |-> kind,
       payload |-> Payload(MaxId, vis, muted, acct, ment,
                           IF parentAcct = "none" THEN NoId ELSE 1, parentAcct,
                           media, NullV, <<Tok(1, TRUE)>>)] :
        kind \in {"update", "delete"}, vis \in {"public", "unlisted"},
        muted \in BOOLEAN, acct \in {MASTODON_ACCOUNT_ID, "other"},
        ment \in {0, 1}, parentAcct \in {"none", MASTODON_ACCOUNT_ID, "other"},
        media \in {<<>>, <<Attachment(1, "video")>>,
                   <<Attachment(1, "image"), Attachment(2, "video")>>} }

Events ==
    { e \in GoodEvents : e.payload.inReplyToId < e.payload.id /\ Varied(e.payload) }
        \cup OtherEvents

(***************************************************************************)
(* Event filter                                                            *)
(***************************************************************************)
\* mutant: posts with mentions are let through
includeEventWithMentions(mastodonEvent) ==
    LET payload == mastodonEvent.payload
        event == mastodonEvent.event
    IN  ~ ( \/ event # "update"
            \/ payload.visibility # "public"
            \/ payload.muted = TRUE
            \/ payload.account.id # MASTODON_ACCOUNT_ID
            \/ /\ payload.inReplyToAccountId # "none"
               /\ payload.inReplyToAccountId # MASTODON_ACCOUNT_ID )

includeEvent(mastodonEvent) ==
    LET payload == mastodonEvent.payload
        event == mastodonEvent.event
    IN  ~ ( \/ event # "update"
            \/ payload.visibility # "public"
            \/ payload.muted = TRUE
            \/ payload.account.id # MASTODON_ACCOUNT_ID
            \/ payload.mentions > 0
            \/ /\ payload.inReplyToAccountId # "none"
               /\ payload.inReplyToAccountId # MASTODON_ACCOUNT_ID )

\* mediaAttachments.some(({ type }) => type !== "image")
HasNonImage(payload) ==
    \E i \in 1..Len(payload.mediaAttachments) :
        payload.mediaAttachments[i].type # "image"

\* getMastodonStatusStream yields the payload of this event
Yields(e) == includeEvent(e) /\ ~HasNonImage(e.payload)

(***************************************************************************)
(* Post assembly                                                           *)
(***************************************************************************)
\* mutant: the failure entry is taken for a missing one
ParentAccessThrowsOnFailure(parent) == parent = UndefinedItem \/ parent = [bsky |-> NullV]

\* reading parent.bsky of undefined throws a TypeError
ParentAccessThrows(parent) == parent = UndefinedItem

\* mutant: the parent is always taken for the thread root
ReplyRefParentAsRoot(parent) ==
    IF parent.bsky # NullV
    THEN [parent |-> parent.bsky.post, root |-> parent.bsky.post]
    ELSE NullV

\* if (parent.bsky) post.reply = { parent: ..., root: ... || ... }
ReplyRef(parent) ==
    IF parent.bsky # NullV
    THEN [parent |-> parent.bsky.post,
          root |-> IF parent.bsky.root # NullV THEN parent.bsky.root
                   ELSE parent.bsky.post]
    ELSE NullV

\* the post object before the reply and embed fields are set
BasePost(mastodonStatus) ==
    [text |-> reformatText(mastodonStatus),
     langs |-> <<mastodonStatus.language>>,
     reply |-> NullV,
     embed |-> NullV]

\* mutant: the card is looked at before the media attachments
EmbedKindCardFirst(mastodonStatus) ==
    IF mastodonStatus.card # NullV THEN "external"
    ELSE IF Len(mastodonStatus.mediaAttachments) > 0 THEN "images"
    ELSE "none"

\* which embed mastodonStatusToBskyPost builds: if (mediaAttachments.length > 0)
\* ... else if (card) ...
EmbedKind(mastodonStatus) ==
    IF Len(mastodonStatus.mediaAttachments) > 0 THEN "images"
    ELSE IF mastodonStatus.card # NullV THEN "external"
    ELSE "none"

NewTask(url) == [url |-> url, state |-> "fetch", blob |-> NullV]

\* mutant: Promise.allSettled, which never rejects
PromiseAllSettled(ts) ==
    IF \A i \in 1..Len(ts) : ts[i].state \in {"done", "failed"} THEN "fulfilled"
    ELSE "pending"

\* Promise.all over the per-source promises
PromiseAll(ts) ==
    IF \E i \in 1..Len(ts) : ts[i].state = "failed" THEN "rejected"
    ELSE IF \A i \in 1..Len(ts) : ts[i].state = "done" THEN "fulfilled"
    ELSE "pending"

\* mutant: the blobs are taken in the opposite order of the attachments
ImagesEmbedReversed(mediaAttachments, blobs) ==
    [type |-> "app.bsky.embed.images",
     images |-> [index \in 1..Len(mediaAttachments) |->
                    [alt |-> mediaAttachments[index].description,
                     image |-> blobs[Len(blobs) + 1 - index],
                     aspectRatio |-> mediaAttachments[index].meta]]]

\* mastodonMediaToBskyEmbeds: blobs[index] with the attachment's own metadata
ImagesEmbed(mediaAttachments, blobs) ==
    [type |-> "app.bsky.embed.images",
     images |-> [index \in 1..Len(mediaAttachments) |->
                    [alt |-> mediaAttachments[index].description,
                     image |-> blobs[index],
                     aspectRatio |-> mediaAttachments[index].meta]]]

\* mastodonCardToBskyEmbed without / with a thumbnail
ExternalEmbed(card) ==
    [type |-> "app.bsky.embed.external", uri |-> card.url, blob |-> NullV]

ExternalEmbedWithThumb(card, blob) ==
    [type |-> "app.bsky.embed.external", uri |-> card.url, blob |-> blob.original]

\* mutant: the root of the thread is not recorded
SuccessEntryNoRoot(posted, bskyPost) == [bsky |-> [post |-> posted, root |-> NullV]]

\* mutant: a thread root is recorded as its own root
SuccessEntryOwnRoot(posted, bskyPost) ==
    [bsky |-> [post |-> posted,
               root |-> IF bskyPost.reply # NullV THEN bskyPost.reply.root
                        ELSE posted]]

\* the value stored after a successful cross-post
SuccessEntry(posted, bskyPost) ==
    [bsky |-> [post |-> posted,
               root |-> IF bskyPost.reply # NullV THEN bskyPost.reply.root
                        ELSE NullV]]

\* the value stored after a failed cross-post
FailureEntry == [bsky |-> NullV]

\* storage.setItem(key, value)
setItem(st, key, value) == [st EXCEPT ![key] = value]

\* mutant: the outer catch only logs
FailureWriteSkipped(st, id) == st

\* the write of the outer catch: storage.setItem(id, { bsky: null })
FailureWrite(st, id) == setItem(st, id, FailureEntry)

(***************************************************************************)
(* The ingestion loop                                                      *)
(*                                                                         *)
(* Synchronous code and promise continuations run to the next I/O await    *)
(* in one step: a rejected transload reaches the outer catch before any    *)
(* other I/O completes, and validateRecord runs right after the embed.     *)
(***************************************************************************)
RtIdle == [content |-> <<>>, url |-> 20, language |-> "en"]
EvIdle == [event |-> "none", payload |-> NullV]

Init ==
    /\ storage = [k \in Ids |-> UndefinedItem]
    /\ pc = "next"
    /\ cur = NullV
    /\ post = NullV
    /\ tasks = <<>>
    /\ feed = <<>>
    /\ delivered = 0
    /\ processed = {}
    /\ error = "none"
    /\ writeFailed = {}
    /\ rtStatus = RtIdle
    /\ rtResult = NullV
    /\ evIn = EvIdle
    /\ evOut = "pending"

\* mutant: the success write is not awaited, the next event is pulled at once
AwaitingNextOrSaving == pc \in {"next", "save"}

\* the for-await loop asks the generator for the next event only when the
\* loop body has run to its end
AwaitingNext == pc = "next"

\* the subscription delivers an event that the stream generator drops
SkipEvent ==
    /\ AwaitingNext
    /\ delivered < MaxEvents
    /\ \E e \in Events : ~Yields(e)
    /\ delivered' = delivered + 1
    /\ UNCHANGED <<storage, pc, cur, post, tasks, feed, processed, error,
                   writeFailed, rtStatus, rtResult, evIn, evOut>>

\* an exception reaches the outer catch of the loop body; bskyPost is out of
\* scope there and the results of the other promises are never read
Throw(e) ==
    /\ pc' = "catch"
    /\ post' = NullV
    /\ tasks' = <<>>
    /\ error' = e

\* AppBskyFeedPost.validateRecord(p): success and agent.post is called,
\* or mastodonStatusToBskyPost throws
Validated(p) ==
    \E success \in BOOLEAN :
        IF success
        THEN pc' = "submit" /\ post' = p /\ tasks' = <<>> /\ UNCHANGED error
        ELSE Throw("ValidationError")

\* mastodonStatusToBskyPost up to its first transload, or up to its end
AssembleHead(mastodonStatus) ==
    LET base == BasePost(mastodonStatus)
        parent == storage[mastodonStatus.inReplyToId]
        withReply == IF mastodonStatus.inReplyToId # NoId
                     THEN [base EXCEPT !.reply = ReplyRef(parent)]
                     ELSE base
    IN  IF mastodonStatus.inReplyToId # NoId /\ ParentAccessThrows(parent)
        THEN Throw("TypeError")
        ELSE IF EmbedKind(mastodonStatus) = "images"
        THEN /\ post' = withReply
             /\ tasks' = [i \in 1..Len(mastodonStatus.mediaAttachments) |->
                             NewTask(mastodonStatus.mediaAttachments[i].url)]
             /\ pc' = "transload"
             /\ UNCHANGED error
        ELSE IF EmbedKind(mastodonStatus) = "external"
        THEN IF mastodonStatus.card.image # NullV
             THEN /\ post' = withReply
                  /\ tasks' = <<NewTask(mastodonStatus.card.image.href)>>
                  /\ pc' = "transload"
                  /\ UNCHANGED error
             ELSE Validated([withReply EXCEPT
                                !.embed = ExternalEmbed(mastodonStatus.card)])
        ELSE Validated(withReply)

\* the generator yields a payload; the loop body runs up to its first I/O
Receive ==
    /\ AwaitingNext
    /\ delivered < MaxEvents
    /\ \E e \in Events :
        /\ Yields(e)
        /\ cur' = e.payload
        /\ processed' = processed \cup {e.payload.id}
        /\ AssembleHead(e.payload)
    /\ delivered' = delivered + 1
    /\ UNCHANGED <<storage, feed, writeFailed, rtStatus, rtResult, evIn, evOut>>

\* the continuation of the transload after one of its promises changed state
Settle(ts) ==
    LET blobs == [i \in 1..Len(ts) |-> ts[i].blob]
        all == PromiseAll(ts)
    IN  IF all = "rejected" THEN Throw("TransloadError")
        ELSE IF all = "fulfilled"
        THEN Validated([post EXCEPT !.embed =
                 IF EmbedKind(cur) = "images"
                 THEN ImagesEmbed(cur.mediaAttachments, blobs)
                 ELSE ExternalEmbedWithThumb(cur.card, blobs[1])])
        ELSE tasks' = ts /\ UNCHANGED <<pc, post, error>>

\* fetch(url) of one source settles: ok, or not ok (the promise rejects)
Download(i) ==
    /\ pc = "transload"
    /\ tasks[i].state = "fetch"
    /\ \E ok \in BOOLEAN :
        Settle([tasks EXCEPT ![i].state = IF ok THEN "upload" ELSE "failed"])
    /\ UNCHANGED <<storage, cur, feed, delivered, processed, writeFailed,
                   rtStatus, rtResult, evIn, evOut>>

\* agent.uploadBlob of one source settles: success with a blob, or failure
Upload(i) ==
    /\ pc = "transload"
    /\ tasks[i].state = "upload"
    /\ \E success \in BOOLEAN :
        Settle(IF success
               THEN [tasks EXCEPT ![i].state = "done", ![i].blob = BlobRef(tasks[i].url)]
               ELSE [tasks EXCEPT ![i].state = "failed"])
    /\ UNCHANGED <<storage, cur, feed, delivered, processed, writeFailed,
                   rtStatus, rtResult, evIn, evOut>>

\* agent.post(bskyPost): the destination accepts the record, or rejects it
Submit ==
    /\ pc = "submit"
    /\ \E accepted \in BOOLEAN :
        IF accepted
        THEN /\ feed' = Append(feed, [src |-> cur.id])
             /\ pc' = "save"
             /\ UNCHANGED <<post, tasks, error>>
        ELSE /\ Throw("SubmissionError")
             /\ UNCHANGED feed
    /\ UNCHANGED <<storage, cur, delivered, processed, writeFailed,
                   rtStatus, rtResult, evIn, evOut>>

\* the item is finished and the loop awaits the next event
EndItem ==
    /\ pc' = "next"
    /\ cur' = NullV
    /\ post' = NullV
    /\ tasks' = <<>>
    /\ error' = "none"

\* an exception leaves the top-level loop: the process ends, its memory is lost
Crash ==
    /\ pc' = "crashed"
    /\ cur' = NullV
    /\ post' = NullV
    /\ tasks' = <<>>
    /\ error' = "none"

\* mutant: no inner try, the storage error reaches the outer catch
StorageFailedRethrown == Throw("StorageError") /\ UNCHANGED cur

\* the inner catch: "Cross-posting worked, but result storage failed" is
\* logged and the loop body ends
StorageFailed == EndItem

\* storage.setItem of the success entry, inside the inner try: it completes,
\* or it throws and the inner catch logs the error
SaveSuccess ==
    /\ pc = "save"
    /\ \/ /\ storage' = setItem(storage, cur.id, SuccessEntry(Identity(Len(feed)), post))
          /\ UNCHANGED writeFailed
          /\ EndItem
       \/ /\ writeFailed' = writeFailed \cup {cur.id}
          /\ UNCHANGED storage
          /\ StorageFailed
    /\ UNCHANGED <<feed, delivered, processed, rtStatus, rtResult, evIn, evOut>>

\* storage.setItem of the failure entry, inside the outer catch: it completes,
\* or it throws out of the loop and the process ends
SaveFailure ==
    /\ pc = "catch"
    /\ \/ /\ storage' = FailureWrite(storage, cur.id)
          /\ EndItem
          /\ UNCHANGED writeFailed
       \/ /\ writeFailed' = writeFailed \cup {cur.id}
          /\ Crash
          /\ UNCHANGED storage
    /\ UNCHANGED <<feed, delivered, processed, rtStatus, rtResult, evIn, evOut>>

\* the process is started again on the same storage directory
Restart ==
    /\ pc = "crashed"
    /\ pc' = "next"
    /\ UNCHANGED <<cur, post, tasks, error, storage, feed, delivered, processed, writeFailed,
                   rtStatus, rtResult, evIn, evOut>>

Next ==
    \/ SkipEvent
    \/ Receive
    \/ \E i \in 1..Len(tasks) : Download(i)
    \/ \E i \in 1..Len(tasks) : Upload(i)
    \/ Submit
    \/ SaveSuccess
    \/ SaveFailure
    \/ Restart

Spec == Init /\ [][Next]_vars

(***************************************************************************)
(* The loop on a stream that delivers each source post once, and on a      *)
(* stream that delivers one self-thread: post 1, and each post k > 1 a     *)
(* reply to post k - 1.                                                    *)
(***************************************************************************)
ReceiveOnce == Receive /\ cur'.id \notin processed

NextSingle ==
    \/ SkipEvent
    \/ ReceiveOnce
    \/ \E i \in 1..Len(tasks) : Download(i)
    \/ \E i \in 1..Len(tasks) : Upload(i)
    \/ Submit
    \/ SaveSuccess
    \/ SaveFailure
    \/ Restart

SpecSingle == Init /\ [][NextSingle]_vars

ReceiveChain == ReceiveOnce /\ cur'.inReplyToId = cur'.id - 1

NextChain ==
    \/ SkipEvent
    \/ ReceiveChain
    \/ \E i \in 1..Len(tasks) : Download(i)
    \/ \E i \in 1..Len(tasks) : Upload(i)
    \/ Submit
    \/ SaveSuccess
    \/ SaveFailure
    \/ Restart

SpecChain == Init /\ [][NextChain]_vars

(***************************************************************************)
(* The reformatText harness: the input is drawn from the bounded contents  *)
(* and urls, and one step applies the function.                            *)
(***************************************************************************)
RECURSIVE SeqsUpTo(_, _)
SeqsUpTo(S, n) ==
    IF n = 0 THEN {<<>>}
    ELSE LET shorter == SeqsUpTo(S, n - 1)
         IN  shorter \cup { Append(q, x) : q \in shorter, x \in S }

InitText ==
    /\ storage = [k \in Ids |-> UndefinedItem]
    /\ pc = "next"
    /\ cur = NullV
    /\ post = NullV
    /\ tasks = <<>>
    /\ feed = <<>>
    /\ delivered = 0
    /\ processed = {}
    /\ error = "none"
    /\ writeFailed = {}
    /\ rtStatus \in [content : SeqsUpTo(Piece, MaxPieces), url : UrlLens, language : {"en"}]
    /\ rtResult = NullV
    /\ evIn = EvIdle
    /\ evOut = "pending"

Reformat ==
    /\ rtResult = NullV
    /\ rtResult' = reformatText(rtStatus)
    /\ UNCHANGED <<pipelineVars, rtStatus, filterVars>>

NextText == Reformat

SpecText == InitText /\ [][NextText]_vars

(***************************************************************************)
(* The event filter harness: an event is drawn from the bounded events     *)
(* and one step runs it through the stream generator.                      *)
(***************************************************************************)
\* every combination of the fields the filter reads
FilterEvents ==
    { [event |-> kind,
       payload |-> Payload(MaxId, vis, muted, acct, ment,
                           IF parentAcct = "none" THEN NoId ELSE 1, parentAcct,
                           media, NullV, ShortContent)] :
        kind \in {"update", "delete", "status.update"},
        vis \in {"public", "unlisted", "private"},
        muted \in BOOLEAN, acct \in {MASTODON_ACCOUNT_ID, "other"},
        ment \in {0, 1, 2}, parentAcct \in {"none", MASTODON_ACCOUNT_ID, "other"},
        media \in {<<>>, <<Attachment(1, "image")>>, <<Attachment(1, "video")>>,
                   <<Attachment(1, "image"), Attachment(2, "gifv")>>} }

InitFilter ==
    /\ storage = [k \in Ids |-> UndefinedItem]
    /\ pc = "next"
    /\ cur = NullV
    /\ post = NullV
    /\ tasks = <<>>
    /\ feed = <<>>
    /\ delivered = 0
    /\ processed = {}
    /\ error = "none"
    /\ writeFailed = {}
    /\ rtStatus = RtIdle
    /\ rtResult = NullV
    /\ evIn \in FilterEvents \cup Events
    /\ evOut = "pending"

\* one iteration of the generator's loop: the payload is yielded, or dropped
Filter ==
    /\ evOut = "pending"
    /\ evOut' = IF Yields(evIn) THEN "yielded" ELSE "dropped"
    /\ UNCHANGED <<pipelineVars, textVars, evIn>>

NextFilter == Filter

SpecFilter == InitFilter /\ [][NextFilter]_vars

(***************************************************************************)
(* Claims                                                                  *)
(***************************************************************************)
IsReply == cur # NullV /\ cur.inReplyToId # NoId
ParentEntry == storage[cur.inReplyToId]
Assembled == pc \in {"transload", "submit", "save"}

\* C1: a reply whose parent has no ledger entry is assembled without an error
\* and without a reply reference.
C1_AbsentParentNoError ==
    (IsReply /\ ParentEntry = UndefinedItem) =>
        /\ error # "TypeError"
        /\ Assembled => post.reply = NullV

\* C2: no failure while processing an item, a failing ledger write included,
\* stops the ingestion loop.
C2_LoopNeverHalts == pc # "crashed"

\* C3: a stripped text of more than 300 graphemes is returned truncated, as at
\* most 300 graphemes that end with the separator and the source url.
C3_LongTextTruncated ==
    (rtResult # NullV /\ countGraphemes(StrippedText(rtStatus.content)) > GraphemeLimit) =>
        /\ rtResult.truncated
        /\ ResultGraphemes(rtResult) <= GraphemeLimit

\* C4: a ledger key that holds an entry is never written again.
C4_WriteOnce ==
    [][\A k \in Ids : storage[k] # UndefinedItem => storage'[k] = storage[k]]_vars

\* C5 as claimed: between items, a key has an entry iff its post was processed.
C5_EntryIffProcessed ==
    pc = "next" => \A k \in Ids : (storage[k] # UndefinedItem) <=> (k \in processed)

\* C5 as amended: between items, a key has an entry only if its post was
\* processed, and a processed post has an entry unless a ledger write for it threw.
C5_EntryOnlyIfProcessed ==
    pc = "next" =>
        \A k \in Ids :
            /\ storage[k] # UndefinedItem => k \in processed
            /\ (k \in processed /\ k \notin writeFailed) => storage[k] # UndefinedItem

C5_Witness ==
    /\ pc = "next"
    /\ \E k \in processed : storage[k] = UndefinedItem /\ k \in writeFailed
    /\ \E k \in processed : storage[k] # UndefinedItem

\* C6 as claimed: the entry written for a cross-posted non-reply holds the
\* returned identity as post and as root.
C6_RootEntryOwnRoot ==
    [][(pc = "save" /\ cur.inReplyToId = NoId /\ storage' # storage) =>
          storage'[cur.id] = [bsky |-> [post |-> Identity(Len(feed)),
                                        root |-> Identity(Len(feed))]]]_vars

\* C6 as amended: the entry written for a cross-posted non-reply holds the
\* returned identity as post and null as root.
C6_RootEntryNullRoot ==
    [][(pc = "save" /\ cur.inReplyToId = NoId /\ storage' # storage) =>
          storage'[cur.id] = [bsky |-> [post |-> Identity(Len(feed)),
                                        root |-> NullV]]]_vars

C6_Witness ==
    /\ pc = "next"
    /\ \E k \in Ids : \E n \in 1..Len(feed) :
          /\ feed[n].src = k
          /\ storage[k] = [bsky |-> [post |-> Identity(n), root |-> NullV]]

\* C7: a reply assembled while its parent has a success entry refers to the
\* parent's recorded post as parent and to the parent's recorded root as root,
\* or to the parent's post as root when the recorded root is null.
C7_ReplyFollowsParentEntry ==
    (IsReply /\ Assembled /\ ParentEntry # UndefinedItem /\ ParentEntry # FailureEntry) =>
        /\ post.reply # NullV
        /\ post.reply.parent = ParentEntry.bsky.post
        /\ ParentEntry.bsky.root # NullV => post.reply.root = ParentEntry.bsky.root
        /\ ParentEntry.bsky.root = NullV => post.reply.root = ParentEntry.bsky.post

C7_Witness ==
    /\ IsReply /\ pc = "save"
    /\ ParentEntry # UndefinedItem /\ ParentEntry # FailureEntry
    /\ ParentEntry.bsky.root # NullV
    /\ post.reply.root # post.reply.parent

\* C8: a reply whose parent's entry is the failure entry is assembled without
\* an error from the lookup and without a reply reference.
C8_FailedParentNoReply ==
    (IsReply /\ ParentEntry = FailureEntry) =>
        /\ error # "TypeError"
        /\ Assembled => post.reply = NullV

C8_Witness ==
    /\ IsReply /\ pc = "save"
    /\ ParentEntry = FailureEntry
    /\ post.reply = NullV
    /\ feed[Len(feed)].src = cur.id

\* C9: after a failed assembly or submission the ledger holds the failure
\* entry for the item, the entry stays, and the post is not submitted again.
C9_FailureIsRecordedForGood ==
    [][/\ (pc = "catch" /\ pc' # "catch") => storage'[cur.id] = FailureEntry
       /\ \A k \in Ids :
            storage[k] = FailureEntry =>
                /\ storage'[k] = FailureEntry
                /\ (Len(feed') > Len(feed) => feed'[Len(feed')].src # k)]_vars

\* C10: a failed download or upload fails the whole transload at once, and a
\* post with N image attachments is handed to the destination with N images.
C10_MediaBatchAtomicity ==
    /\ \A i \in 1..Len(tasks) : tasks[i].state # "failed"
    /\ (pc \in {"submit", "save"} /\ Len(cur.mediaAttachments) > 0) =>
          /\ post.embed # NullV
          /\ post.embed.type = "app.bsky.embed.images"
          /\ Len(post.embed.images) = Len(cur.mediaAttachments)
          /\ \A i \in 1..Len(post.embed.images) : post.embed.images[i].image # NullV

C10_Witness ==
    /\ pc = "catch"
    /\ error = "TransloadError"
    /\ Len(cur.mediaAttachments) >= 2
    /\ feed = <<>>

\* C11 as claimed: the next event is pulled only between items, and a parent
\* processed before its reply has its entry in the ledger at the reply's lookup.
C11_ParentEntryBeforeLookup ==
    [][/\ delivered' # delivered =>
            (pc = "next" /\ cur = NullV /\ post = NullV /\ tasks = <<>>)
       /\ (cur' # cur /\ cur' # NullV /\ cur'.inReplyToId # NoId
             /\ cur'.inReplyToId \in processed) =>
            storage[cur'.inReplyToId] # UndefinedItem]_vars

\* C11 as amended: the next event is pulled only between items, and a parent
\* processed before its reply has its entry in the ledger at the reply's
\* lookup unless the parent's ledger write threw.
C11_SequentialProcessing ==
    [][/\ delivered' # delivered =>
            (pc = "next" /\ cur = NullV /\ post = NullV /\ tasks = <<>>)
       /\ (cur' # cur /\ cur' # NullV /\ cur'.inReplyToId # NoId
             /\ cur'.inReplyToId \in processed
             /\ cur'.inReplyToId \notin writeFailed) =>
            storage[cur'.inReplyToId] # UndefinedItem]_vars

C11_Witness ==
    /\ IsReply /\ pc = "submit"
    /\ cur.inReplyToId \in processed
    /\ cur.inReplyToId \notin writeFailed
    /\ ParentEntry # UndefinedItem

\* C12: an event is yielded to the loop iff its kind is "update", it is
\* public, not muted, by the tracked account, without mentions, no reply to
\* another account, and all its media attachments are images.
C12_AdmittedIffNoCondition ==
    evOut # "pending" =>
        (evOut = "yielded" <=>
            /\ evIn.event = "update"
            /\ evIn.payload.visibility = "public"
            /\ ~evIn.payload.muted
            /\ evIn.payload.account.id = MASTODON_ACCOUNT_ID
            /\ evIn.payload.mentions = 0
            /\ evIn.payload.inReplyToAccountId \in {"none", MASTODON_ACCOUNT_ID}
            /\ \A i \in 1..Len(evIn.payload.mediaAttachments) :
                  evIn.payload.mediaAttachments[i].type = "image")

C12_Witness ==
    /\ evOut = "dropped"
    /\ evIn.event = "update"
    /\ evIn.payload.visibility = "public"
    /\ ~evIn.payload.muted
    /\ evIn.payload.account.id = MASTODON_ACCOUNT_ID
    /\ evIn.payload.mentions = 0
    /\ evIn.payload.inReplyToAccountId = MASTODON_ACCOUNT_ID
    /\ Len(evIn.payload.mediaAttachments) = 2

\* C13: the record handed to the destination has the image-set embed when the
\* source post has an image attachment (with or without a card), else the
\* external-link embed when it has a card, else no embed.
C13_OneEmbedByPriority ==
    pc \in {"submit", "save"} =>
        /\ Len(cur.mediaAttachments) > 0 =>
              post.embed # NullV /\ post.embed.type = "app.bsky.embed.images"
        /\ (Len(cur.mediaAttachments) = 0 /\ cur.card # NullV) =>
              post.embed # NullV /\ post.embed.type = "app.bsky.embed.external"
        /\ (Len(cur.mediaAttachments) = 0 /\ cur.card = NullV) => post.embed = NullV

C13_Witness ==
    /\ pc = "save"
    /\ Len(cur.mediaAttachments) > 0
    /\ cur.card # NullV
    /\ post.embed.type = "app.bsky.embed.images"

C15_ThumbnailBlobCarried ==
    (pc \in {"submit", "save"} /\ Len(cur.mediaAttachments) = 0
        /\ cur.card # NullV /\ cur.card.image # NullV) =>
        /\ post.embed # NullV
        /\ post.embed.blob = BlobRef(cur.card.image.href)

IsSuccess(entry) == entry # UndefinedItem /\ entry # FailureEntry

\* the identity the destination returned for the post of source id k
PublishedAs(k, identity) ==
    \E n \in 1..Len(feed) : feed[n].src = k /\ identity = Identity(n)

\* C16: in a self-thread whose posts arrived in order and were all published
\* and recorded, a reply refers to the published first post of the thread as
\* root and to its published direct parent as parent.
C16_ThreadRootAlongChain ==
    (IsReply /\ Assembled /\ \A k \in 1..(cur.id - 1) : IsSuccess(storage[k])) =>
        /\ post.reply # NullV
        /\ PublishedAs(cur.id - 1, post.reply.parent)
        /\ PublishedAs(1, post.reply.root)

C16_Witness ==
    /\ IsReply /\ pc = "save"
    /\ cur.id = 3
    /\ \A k \in 1..2 : IsSuccess(storage[k])
    /\ PublishedAs(1, post.reply.root)
    /\ PublishedAs(2, post.reply.parent)

RtText == StrippedText(rtStatus.content)
RtBudget == maxGraphemeCount(rtStatus.url)

\* C17: a truncated result's snippet is a prefix of the stripped text made of
\* whole segments, it ends after a word-like segment, its grapheme count is
\* below the budget, and the next word-like segment would meet or exceed it.
C17_SnippetIsLongestWholeWordPrefix ==
    (rtResult # NullV /\ rtResult.truncated) =>
        LET k == Len(rtResult.body)
        IN  /\ k <= Len(RtText)
            /\ rtResult.body = SubSeq(RtText, 1, k)
            /\ k > 0 => RtText[k].word
            /\ countGraphemes(rtResult.body) < RtBudget
            /\ \E j \in (k + 1)..Len(RtText) :
                  /\ RtText[j].word
                  /\ \A m \in (k + 1)..(j - 1) : ~RtText[m].word
                  /\ countGraphemes(SubSeq(RtText, 1, j)) >= RtBudget

C17_Witness ==
    /\ rtResult # NullV /\ rtResult.truncated
    /\ rtResult.body # <<>>
    /\ \E j \in (Len(rtResult.body) + 1)..Len(RtText) :
          countGraphemes(SubSeq(RtText, 1, j)) = RtBudget

\* C18: a stripped text that is one word-like segment of more than 300
\* graphemes gives the empty snippet followed by the separator and the url.
C18_SingleTokenEmptySnippet ==
    (rtResult # NullV /\ Len(RtText) = 1 /\ RtText[1].word
        /\ RtText[1].len > GraphemeLimit) =>
        rtResult = [body |-> <<>>, truncated |-> TRUE, url |-> rtStatus.url]

C18_Witness ==
    /\ rtResult # NullV
    /\ RtText = <<Tok(301, TRUE)>>
    /\ rtResult.truncated /\ rtResult.body = <<>>

\* C19: when each source post is delivered once, a success entry belongs to
\* exactly one published post and holds its identity, a failure entry belongs
\* to no published post, and a record is submitted at most once per event.
C19_LedgerMatchesDestination ==
    /\ \A k \in Ids :
          IsSuccess(storage[k]) =>
              /\ Cardinality({n \in 1..Len(feed) : feed[n].src = k}) = 1
              /\ PublishedAs(k, storage[k].bsky.post)
    /\ \A k \in Ids :
          storage[k] = FailureEntry => \A n \in 1..Len(feed) : feed[n].src # k
    /\ pc = "submit" => \A n \in 1..Len(feed) : feed[n].src # cur.id
    /\ Len(feed) <= Cardinality(processed)

C19_Witness ==
    /\ pc = "next"
    /\ \E k \in Ids : IsSuccess(storage[k]) /\ PublishedAs(k, storage[k].bsky.post)
    /\ \E k \in Ids : storage[k] = FailureEntry
    /\ Len(feed) = 2

\* C20: whatever the order in which the downloads and uploads of a post
\* complete, the i-th image of the embed holds the blob uploaded from the i-th
\* attachment's url, with that attachment's alt text and aspect ratio.
C20_BlobsPairedWithOwnAttachment ==
    (pc \in {"submit", "save"} /\ Len(cur.mediaAttachments) > 0) =>
        /\ post.embed # NullV
        /\ DOMAIN post.embed.images = DOMAIN cur.mediaAttachments
        /\ \A i \in DOMAIN cur.mediaAttachments :
              /\ post.embed.images[i].image = BlobRef(cur.mediaAttachments[i].url)
              /\ post.embed.images[i].alt = cur.mediaAttachments[i].description
              /\ post.embed.images[i].aspectRatio = cur.mediaAttachments[i].meta

C20_Witness ==
    /\ pc = "save"
    /\ Len(cur.mediaAttachments) >= 2
    /\ post.embed.images[2].image = BlobRef(cur.mediaAttachments[2].url)
    /\ post.embed.images[1].image # post.embed.images[2].image

====
